---------------------------- MODULE Spec2Model ----------------------------
(***************************************************************************)
(* A model of the validator set of general_validation                      *)
(* (src/app/validators.py) and of the endpoints that call it               *)
(* (src/app/main.py).                                                      *)
(*                                                                         *)
(* A Python string is a sequence of one-character strings, so that         *)
(* parsing, escaping and pattern matching are computed character by        *)
(* character.  A Python value is a record [t, v]: t is the name of its     *)
(* type and v its content.  The result of a call is a record               *)
(* [kind, code, status, ret]: kind "Valid" (the call returned ret),        *)
(* "Invalid" (it raised HTTPException with that status; code names the     *)
(* rule that raised it) or "Error" (it raised another exception, named by  *)
(* code).                                                                  *)
(***************************************************************************)
EXTENDS Integers, Sequences, FiniteSets, TLC

VARIABLES validator, params, value, outcome, previous, calls, file, today,
          lookups

vars == <<validator, params, value, outcome, previous, calls, file, today, lookups>>

(***************************************************************************)
(* Characters.                                                             *)
(***************************************************************************)
DigitSeq == <<"0", "1", "2", "3", "4", "5", "6", "7", "8", "9">>

LowerSeq == <<"a", "b", "c", "d", "e", "f", "g", "h", "i", "j", "k", "l", "m",
              "n", "o", "p", "q", "r", "s", "t", "u", "v", "w", "x", "y", "z">>

UpperSeq == <<"A", "B", "C", "D", "E", "F", "G", "H", "I", "J", "K", "L", "M",
              "N", "O", "P", "Q", "R", "S", "T", "U", "V", "W", "X", "Y", "Z">>

Range(f) == {f[i] : i \in DOMAIN f}

Digits == Range(DigitSeq)

LowerLetters == Range(LowerSeq)

UpperLetters == Range(UpperSeq)

Letters == LowerLetters \cup UpperLetters

\* str.isspace / the regex class \s, on the characters the model draws
Whitespace == {" ", "\t", "\n"}

DigitVal(c) == (CHOOSE i \in DOMAIN DigitSeq : DigitSeq[i] = c) - 1

\* str.lower on one character
ToLower(c) ==
    IF c \in UpperLetters
    THEN LowerSeq[CHOOSE i \in DOMAIN UpperSeq : UpperSeq[i] = c]
    ELSE c

LowerStr(s) == [i \in DOMAIN s |-> ToLower(s[i])]

\* s[i..j] (1-based, inclusive), the empty string when j < i
Slice(s, i, j) == IF j < i THEN <<>> ELSE SubSeq(s, i, j)

\* every string over alphabet A of length at most n
Strs(A, n) == UNION {[1..k -> A] : k \in 0..n}

RECURSIVE Pow10(_)
Pow10(k) == IF k <= 0 THEN 1 ELSE 10 * Pow10(k - 1)

(***************************************************************************)
(* Python values.                                                          *)
(***************************************************************************)
PyStr(s) == [t |-> "str", v |-> s]

PyInt(n) == [t |-> "int", v |-> n]

PyBool(b) == [t |-> "bool", v |-> b]

PyNone == [t |-> "NoneType", v |-> 0]

\* the characters of a decimal numeral of n >= 0
RECURSIVE NatChars(_)
NatChars(n) ==
    IF n < 10 THEN <<DigitSeq[n + 1]>>
    ELSE Append(NatChars(n \div 10), DigitSeq[(n % 10) + 1])

\* str(x)
str(x) ==
    CASE x.t = "str" -> x.v
      [] x.t = "int" -> IF x.v < 0 THEN <<"-">> \o NatChars(-x.v) ELSE NatChars(x.v)
      [] x.t = "bool" -> IF x.v THEN <<"T", "r", "u", "e">>
                         ELSE <<"F", "a", "l", "s", "e">>
      [] OTHER -> <<"N", "o", "n", "e">>

\* bool(x): `not value` is ~Truthy(value)
Truthy(x) ==
    CASE x.t = "str" -> Len(x.v) > 0
      [] x.t = "int" -> x.v # 0
      [] x.t = "bool" -> x.v
      [] OTHER -> FALSE

(***************************************************************************)
(* Results of a call.                                                      *)
(***************************************************************************)
Valid(ret) == [kind |-> "Valid", code |-> "Valid", status |-> 200, ret |-> ret]

Invalid(code, status) ==
    [kind |-> "Invalid", code |-> code, status |-> status, ret |-> PyNone]

Crash(exception) ==
    [kind |-> "Error", code |-> exception, status |-> 500, ret |-> PyNone]

\* BaseValidator.raise_validation_error: HTTPException with status 422
raise_validation_error(code) == Invalid(code, 422)

NoOutcome == [kind |-> "None", code |-> "None", status |-> 0, ret |-> PyNone]

(***************************************************************************)
(* html.escape(s): & < > " ' are replaced by their entities.               *)
(***************************************************************************)
EscapeChar(c) ==
    CASE c = "&" -> <<"&", "a", "m", "p", ";">>
      [] c = "<" -> <<"&", "l", "t", ";">>
      [] c = ">" -> <<"&", "g", "t", ";">>
      [] c = "\"" -> <<"&", "q", "u", "o", "t", ";">>
      [] c = "'" -> <<"&", "#", "x", "2", "7", ";">>
      [] OTHER -> <<c>>

RECURSIVE html_escape(_)
html_escape(s) ==
    IF s = <<>> THEN <<>> ELSE EscapeChar(Head(s)) \o html_escape(Tail(s))

(***************************************************************************)
(* float(x).  A float is [kind, neg, mant, exp10]: kind "finite" stands    *)
(* for (-1)^neg * mant * 10^exp10, kind "inf" for a signed infinity and    *)
(* kind "nan" for the value that is unordered with every number.           *)
(***************************************************************************)
Finite(neg, mant, exp10) ==
    [kind |-> "finite", neg |-> neg, mant |-> mant, exp10 |-> exp10]

NaN == [kind |-> "nan", neg |-> FALSE, mant |-> 0, exp10 |-> 0]

Infinity(neg) == [kind |-> "inf", neg |-> neg, mant |-> 0, exp10 |-> 0]

\* what float() answers: a float, or the exception it raises
FloatOk(f) == [ok |-> TRUE, exc |-> "None", f |-> f]

FloatFail(exception) == [ok |-> FALSE, exc |-> exception, f |-> NaN]

\* str.strip(): leading and trailing whitespace removed
RECURSIVE Strip(_)
Strip(s) ==
    IF s = <<>> THEN s
    ELSE IF Head(s) \in Whitespace THEN Strip(Tail(s))
    ELSE IF s[Len(s)] \in Whitespace THEN Strip(SubSeq(s, 1, Len(s) - 1))
    ELSE s

\* The index after the digit part that starts at s[i]: digits, with single
\* underscores allowed between two digits; i itself when s[i] is no digit.
RECURSIVE ScanDigitPart(_, _)
ScanDigitPart(s, i) ==
    IF i > Len(s) \/ s[i] \notin Digits THEN i
    ELSE IF i + 1 <= Len(s) /\ s[i + 1] \in Digits THEN ScanDigitPart(s, i + 1)
    ELSE IF i + 2 <= Len(s) /\ s[i + 1] = "_" /\ s[i + 2] \in Digits
         THEN ScanDigitPart(s, i + 2)
    ELSE i + 1

\* the number written by the digits of s, other characters skipped
RECURSIVE NatVal(_)
NatVal(s) ==
    IF s = <<>> THEN 0
    ELSE IF s[Len(s)] \in Digits
         THEN 10 * NatVal(SubSeq(s, 1, Len(s) - 1)) + DigitVal(s[Len(s)])
    ELSE NatVal(SubSeq(s, 1, Len(s) - 1))

CountDigits(s) == Cardinality({i \in DOMAIN s : s[i] \in Digits})

\* The marks of a numeral b: i1 is the index after the integer digits, i2
\* after the fraction, i3 the first index of the exponent digits and i4 the
\* index after them.
HasDot(b, i1) == i1 <= Len(b) /\ b[i1] = "."

HasExp(b, i2) == i2 <= Len(b) /\ b[i2] \in {"e", "E"}

ExpSigned(b, i2) == HasExp(b, i2) /\ i2 + 1 <= Len(b) /\ b[i2 + 1] \in {"+", "-"}

FloatNumeral(b, neg, i1, i2, i3, i4) ==
    LET hasDigits == i1 > 1 \/ (HasDot(b, i1) /\ i2 > i1 + 1)
        expOk == HasExp(b, i2) => i4 > i3
        expNeg == ExpSigned(b, i2) /\ b[i2 + 1] = "-"
        fracLen == IF HasDot(b, i1) THEN CountDigits(Slice(b, i1 + 1, i2 - 1)) ELSE 0
        expVal == IF HasExp(b, i2) THEN NatVal(Slice(b, i3, i4 - 1)) ELSE 0
        mant == NatVal(Slice(b, 1, i2 - 1))
    IN  IF hasDigits /\ expOk /\ i4 = Len(b) + 1
        THEN FloatOk(Finite(neg, mant, (IF expNeg THEN -expVal ELSE expVal) - fracLen))
        ELSE FloatFail("ValueError")

FloatExponent(b, neg, i1, i2, i3) ==
    FloatNumeral(b, neg, i1, i2, i3, IF HasExp(b, i2) THEN ScanDigitPart(b, i3) ELSE i2)

FloatFraction(b, neg, i1, i2) ==
    FloatExponent(b, neg, i1, i2, IF ExpSigned(b, i2) THEN i2 + 2 ELSE i2 + 1)

FloatInteger(b, neg, i1) ==
    FloatFraction(b, neg, i1, IF HasDot(b, i1) THEN ScanDigitPart(b, i1 + 1) ELSE i1)

\* float(s) of an unsigned body: [sign] was removed by the caller
FloatBody(b, neg) ==
    IF LowerStr(b) = <<"n", "a", "n">> THEN FloatOk(NaN)
    ELSE IF LowerStr(b) \in {<<"i", "n", "f">>, <<"i", "n", "f", "i", "n", "i", "t", "y">>}
         THEN FloatOk(Infinity(neg))
    ELSE FloatInteger(b, neg, ScanDigitPart(b, 1))

\* float(s) for a string s
FloatOfStr(s) ==
    LET t == Strip(s)
    IN  IF t # <<>> /\ Head(t) \in {"+", "-"}
        THEN FloatBody(Tail(t), Head(t) = "-")
        ELSE FloatBody(t, FALSE)

\* float(x): TypeError for a value that is neither a string nor a number
float(x) ==
    CASE x.t = "str" -> FloatOfStr(x.v)
      [] x.t = "int" -> FloatOk(Finite(x.v < 0, IF x.v < 0 THEN -x.v ELSE x.v, 0))
      [] x.t = "bool" -> FloatOk(Finite(FALSE, IF x.v THEN 1 ELSE 0, 0))
      [] OTHER -> FloatFail("TypeError")

Sgn(n) == IF n < 0 THEN -1 ELSE IF n > 0 THEN 1 ELSE 0

\* The order of float f and integer b, |b| < 10^4: -1 (f < b), 0 (f = b),
\* 1 (f > b), or 2 when f is nan, which makes every comparison false.
FloatCmp(f, b) ==
    IF f.kind = "nan" THEN 2
    ELSE IF f.kind = "inf" THEN (IF f.neg THEN -1 ELSE 1)
    ELSE IF f.mant = 0 THEN Sgn(0 - b)
    ELSE LET S == IF f.neg THEN -1 ELSE 1
             D == Len(NatChars(f.mant))
         IN  IF D + f.exp10 > 4 THEN S
             ELSE IF D + f.exp10 <= 0
                  THEN (IF S > 0 THEN (IF b >= 1 THEN -1 ELSE 1)
                        ELSE (IF b >= 0 THEN -1 ELSE 1))
             ELSE IF f.exp10 >= 0 THEN Sgn(S * f.mant * Pow10(f.exp10) - b)
             ELSE Sgn(S * f.mant - b * Pow10(-f.exp10))

\* float_value < b and float_value > b
FloatLT(f, b) == FloatCmp(f, b) = -1

FloatGT(f, b) == FloatCmp(f, b) = 1

(***************************************************************************)
(* The numeric family.                                                     *)
(***************************************************************************)
\* NumericValidator.validate: only ValueError is caught
NumericValidator_validate(x) ==
    LET r == float(x)
    IN  IF r.ok THEN Valid(PyBool(TRUE))
        ELSE IF r.exc = "ValueError" THEN raise_validation_error("NotANumber")
        ELSE Crash(r.exc)

RangeOpenInterval(min_value, max_value, x) ==
    LET numeric == NumericValidator_validate(x)
        float_value == float(x).f
    IN  IF numeric.kind # "Valid" THEN numeric
        ELSE IF min_value.t # "NoneType" /\ ~FloatGT(float_value, min_value.v)
             THEN raise_validation_error("BelowMin")
        ELSE IF max_value.t # "NoneType" /\ ~FloatLT(float_value, max_value.v)
             THEN raise_validation_error("AboveMax")
        ELSE Valid(PyBool(TRUE))

\* RangeValidator(min_value, max_value).validate
RangeValidator_validate(min_value, max_value, x) ==
    LET numeric == NumericValidator_validate(x)
        float_value == float(x).f
    IN  IF numeric.kind # "Valid" THEN numeric
        ELSE IF min_value.t # "NoneType" /\ FloatLT(float_value, min_value.v)
             THEN raise_validation_error("BelowMin")
        ELSE IF max_value.t # "NoneType" /\ FloatGT(float_value, max_value.v)
             THEN raise_validation_error("AboveMax")
        ELSE Valid(PyBool(TRUE))

\* AgeValidator(min_age).validate: the validate of RangeValidator(min_value =
\* min_age, max_value = None) raises or returns, and then True is returned,
\* which is what RangeValidator returns as well
AgeValidator_validate(min_age, x) == RangeValidator_validate(min_age, PyNone, x)

(***************************************************************************)
(* Regular expressions (module re).  A pattern is a tree: Cls(S) matches   *)
(* one character of S, Cat a sequence of patterns, Alt one of several,     *)
(* Rep(r, lo, hi) between lo and hi repetitions of r (hi = Unbounded for   *)
(* * and +).  Ends(r, s, P) is the set of positions at which a match of r  *)
(* that starts at a position of P can end: the pattern matches somewhere   *)
(* exactly when a backtracking matcher finds a match there.                *)
(***************************************************************************)
Unbounded == -1

Cls(S) == [k |-> "cls", cs |-> S, parts |-> <<>>, lo |-> 0, hi |-> 0]

Cat(parts) == [k |-> "cat", cs |-> {}, parts |-> parts, lo |-> 0, hi |-> 0]

Alt(parts) == [k |-> "alt", cs |-> {}, parts |-> parts, lo |-> 0, hi |-> 0]

Rep(r, lo, hi) == [k |-> "rep", cs |-> {}, parts |-> <<r>>, lo |-> lo, hi |-> hi]

Opt(r) == Rep(r, 0, 1)

Plus(r) == Rep(r, 1, Unbounded)

Lit(c) == Cls({c})

\* the classes \d, \w and \s on ASCII text
ClassDigit == Cls(Digits)

WordChars == Letters \cup Digits \cup {"_"}

RECURSIVE Ends(_, _, _), CatEnds(_, _, _, _), RepEnds(_, _, _, _, _, _)
Ends(r, s, P) ==
    CASE r.k = "cls" -> {p + 1 : p \in {q \in P : q <= Len(s) /\ s[q] \in r.cs}}
      [] r.k = "cat" -> CatEnds(r.parts, 1, s, P)
      [] r.k = "alt" -> UNION {Ends(r.parts[i], s, P) : i \in DOMAIN r.parts}
      [] OTHER -> RepEnds(r.parts[1], s, P, 0, r.lo, r.hi)

CatEnds(parts, i, s, P) ==
    IF i > Len(parts) \/ P = {} THEN P
    ELSE CatEnds(parts, i + 1, s, Ends(parts[i], s, P))

RepEnds(body, s, P, n, lo, hi) ==
    IF P = {} THEN {}
    ELSE (IF n >= lo THEN P ELSE {})
         \cup (IF hi # Unbounded /\ n >= hi THEN {}
               ELSE RepEnds(body, s, Ends(body, s, P), n + 1, lo, hi))

\* re.fullmatch(r, s), for a pattern written ^...$ or without anchors
re_fullmatch(r, s) == (Len(s) + 1) \in Ends(r, s, {1})

\* re.match(r, s) for a pattern written ^...$: the final $ matches at the
\* end of s and also just before a line break that ends s
re_match_dollar(r, s) ==
    LET ends == Ends(r, s, {1})
    IN  \/ (Len(s) + 1) \in ends
        \/ Len(s) \in ends /\ s[Len(s)] = "\n"

\* re.search of a one-character class
re_search_class(S, s) == \E i \in DOMAIN s : s[i] \in S

(***************************************************************************)
(* DecimalValidator.                                                       *)
(***************************************************************************)
\* the number of digits the pattern allows after the point: "10" when
\* max_decimal_places is None or 0 (a falsy value)
DecimalPlaces(max_decimal_places) ==
    IF Truthy(max_decimal_places) THEN max_decimal_places.v ELSE 10

\* r"^-?\d+(\.\d{1,N})?$"
DecimalRegex(n) ==
    Cat(<<Opt(Lit("-")), Plus(ClassDigit),
          Opt(Cat(<<Lit("."), Rep(ClassDigit, 1, n)>>))>>)

\* DecimalValidator(max_decimal_places).validate
DecimalValidator_validate(max_decimal_places, x) ==
    LET escaped == html_escape(str(x))
    IN  IF ~re_match_dollar(DecimalRegex(DecimalPlaces(max_decimal_places)), escaped)
        THEN raise_validation_error("NotADecimal")
        ELSE Valid(PyBool(TRUE))

(***************************************************************************)
(* The string family.                                                      *)
(***************************************************************************)
\* MinMaxLengthValidator(min_length, max_length).validate: the value is
\* converted with str() and escaped before isinstance and len look at it
MinMaxLengthValidator_validate(min_length, max_length, x) ==
    LET escaped == html_escape(str(x))
        isStr == TRUE
    IN  IF ~isStr THEN raise_validation_error("NotAString")
        ELSE IF Truthy(min_length) /\ Len(escaped) < min_length.v
             THEN raise_validation_error("TooShort")
        ELSE IF Truthy(max_length) /\ Len(escaped) > max_length.v
             THEN raise_validation_error("TooLong")
        ELSE Valid(PyBool(TRUE))

\* AlphanumericValidator.validate, r"^[a-zA-Z0-9]+$"
AlphanumericValidator_validate(x) ==
    IF ~Truthy(x) THEN raise_validation_error("EmptyValue")
    ELSE IF ~re_match_dollar(Plus(Cls(Letters \cup Digits)), html_escape(str(x)))
         THEN raise_validation_error("NotAlphanumeric")
    ELSE Valid(PyBool(TRUE))

\* AlphabetSetValidator.validate, r"^[a-zA-Z]+$"
AlphabetSetValidator_validate(x) ==
    IF ~Truthy(x) THEN raise_validation_error("EmptyValue")
    ELSE IF ~re_match_dollar(Plus(Cls(Letters)), html_escape(str(x)))
         THEN raise_validation_error("NotAlphabetic")
    ELSE Valid(PyBool(TRUE))

(***************************************************************************)
(* BooleanValidator and PasswordValidator.                                 *)
(***************************************************************************)
\* value in (True, False) in place of isinstance: 1 == True and 0 == False
BooleanAcceptsZeroOne(x) ==
    IF x \in {PyBool(TRUE), PyBool(FALSE), PyInt(0), PyInt(1)}
    THEN Valid(PyNone) ELSE Invalid("NotBoolean", 400)

\* BooleanValidator(value).validate: isinstance(value, bool)
BooleanValidator_validate(x) ==
    IF x.t # "bool" THEN Invalid("NotBoolean", 400) ELSE Valid(PyNone)

PasswordMinLength == 8

\* the class of validate_special_character
SpecialCharacters ==
    {"!", "@", "#", "$", "%", "^", "&", "*", "(", ")", ",", ".", "?", "\"",
     ":", "{", "}", "|", "<", ">"}

PasswordUpperBeforeLower(x) ==
    IF x.t # "str" THEN Crash("TypeError")
    ELSE IF Len(x.v) < PasswordMinLength THEN Invalid("TooShort", 400)
    ELSE IF ~re_search_class(Digits, x.v) THEN Invalid("MissingDigit", 400)
    ELSE IF ~re_search_class(UpperLetters, x.v) THEN Invalid("MissingUpper", 400)
    ELSE IF ~re_search_class(LowerLetters, x.v) THEN Invalid("MissingLower", 400)
    ELSE IF ~re_search_class(SpecialCharacters, x.v)
         THEN Invalid("MissingSpecial", 400)
    ELSE Valid(x)

\* PasswordValidator(password).validate: validate_length, validate_numeric,
\* validate_lowercase, validate_uppercase, validate_special_character.
\* len() and re.search raise TypeError for a password that is no string.
PasswordValidator_validate(x) ==
    IF x.t # "str" THEN Crash("TypeError")
    ELSE IF Len(x.v) < PasswordMinLength THEN Invalid("TooShort", 400)
    ELSE IF ~re_search_class(Digits, x.v) THEN Invalid("MissingDigit", 400)
    ELSE IF ~re_search_class(LowerLetters, x.v) THEN Invalid("MissingLower", 400)
    ELSE IF ~re_search_class(UpperLetters, x.v) THEN Invalid("MissingUpper", 400)
    ELSE IF ~re_search_class(SpecialCharacters, x.v)
         THEN Invalid("MissingSpecial", 400)
    ELSE Valid(x)

(***************************************************************************)
(* datetime.strptime(date_string, format).  A format is the sequence of    *)
(* its directives and literal characters; a blank of the format stands for *)
(* \s+.  As in _strptime, the format is matched as a regular expression in *)
(* which every directive is a group of alternatives tried in order, the    *)
(* first match found by backtracking is kept, text left over after it is   *)
(* an error, and the fields found must then make a date and a time that    *)
(* exist.                                                                  *)
(***************************************************************************)
D19 == Digits \ {"0"}

\* the alternatives of a numeric directive, in the order they are tried
DirectiveAlts(tok) ==
    CASE tok = "%Y" -> << <<Digits, Digits, Digits, Digits>> >>
      [] tok \in {"%m", "%I"} ->
            << <<{"1"}, {"0", "1", "2"}>>, <<{"0"}, D19>>, <<D19>> >>
      [] tok = "%d" ->
            << <<{"3"}, {"0", "1"}>>, <<{"1", "2"}, Digits>>, <<{"0"}, D19>>,
               <<D19>>, <<{" "}, D19>> >>
      [] tok = "%H" ->
            << <<{"2"}, {"0", "1", "2", "3"}>>, <<{"0", "1"}, Digits>>, <<Digits>> >>
      [] tok = "%M" ->
            << <<{"0", "1", "2", "3", "4", "5"}, Digits>>, <<Digits>> >>
      [] tok = "%S" ->
            << <<{"6"}, {"0", "1"}>>, <<{"0", "1", "2", "3", "4", "5"}, Digits>>,
               <<Digits>> >>
      [] OTHER -> <<>>

FullMonthNames ==
    << <<"j","a","n","u","a","r","y">>, <<"f","e","b","r","u","a","r","y">>,
       <<"m","a","r","c","h">>, <<"a","p","r","i","l">>, <<"m","a","y">>,
       <<"j","u","n","e">>, <<"j","u","l","y">>, <<"a","u","g","u","s","t">>,
       <<"s","e","p","t","e","m","b","e","r">>, <<"o","c","t","o","b","e","r">>,
       <<"n","o","v","e","m","b","e","r">>, <<"d","e","c","e","m","b","e","r">> >>

AbbrMonthNames == [i \in 1..12 |-> SubSeq(FullMonthNames[i], 1, 3)]

AmPmNames == << <<"a", "m">>, <<"p", "m">> >>

\* the names of a textual directive
DirectiveNames(tok) ==
    CASE tok = "%B" -> FullMonthNames
      [] tok = "%b" -> AbbrMonthNames
      [] tok = "%p" -> AmPmNames
      [] OTHER -> <<>>

\* the field a token writes; a literal writes none
FieldOf(tok) ==
    CASE tok = "%Y" -> "Y" [] tok \in {"%m", "%B", "%b"} -> "m" [] tok = "%d" -> "d"
      [] tok = "%H" -> "H" [] tok = "%I" -> "I" [] tok = "%M" -> "M"
      [] tok = "%S" -> "S" [] tok = "%p" -> "p" [] OTHER -> "none"

RECURSIVE WhitespaceRun(_, _)
WhitespaceRun(s, pos) ==
    IF pos <= Len(s) /\ s[pos] \in Whitespace THEN 1 + WhitespaceRun(s, pos + 1) ELSE 0

\* an indices sequence of f sorted by decreasing length of f[i] (stable):
\* __seqToRE tries the longest names first
RECURSIVE LongestFirst(_, _)
LongestFirst(names, len) ==
    IF len < 0 THEN <<>>
    ELSE SelectSeq([i \in DOMAIN names |-> i], LAMBDA i : Len(names[i]) = len)
         \o LongestFirst(names, len - 1)

\* The ways token tok can match s at pos, in the order the regular
\* expression tries them: the length matched and the value read.
Candidates(tok, s, pos) ==
    IF tok = " "
    THEN LET n == WhitespaceRun(s, pos)
         IN  [j \in 1..n |-> [len |-> n - j + 1, val |-> 0]]
    ELSE IF DirectiveAlts(tok) # <<>>
    THEN LET fits(a) == /\ pos + Len(a) - 1 <= Len(s)
                        /\ \A i \in DOMAIN a : s[pos + i - 1] \in a[i]
             matching == SelectSeq(DirectiveAlts(tok), fits)
         IN  [j \in DOMAIN matching |->
                [len |-> Len(matching[j]),
                 val |-> NatVal(SubSeq(s, pos, pos + Len(matching[j]) - 1))]]
    ELSE IF DirectiveNames(tok) # <<>>
    THEN LET names == DirectiveNames(tok)
             fits(i) == /\ pos + Len(names[i]) - 1 <= Len(s)
                        /\ LowerStr(SubSeq(s, pos, pos + Len(names[i]) - 1)) = names[i]
             matching == SelectSeq(LongestFirst(names, 9), fits)
         IN  [j \in DOMAIN matching |->
                [len |-> Len(names[matching[j]]), val |-> matching[j]]]
    ELSE IF pos <= Len(s) /\ ToLower(s[pos]) = ToLower(tok)
    THEN <<[len |-> 1, val |-> 0]>>
    ELSE <<>>

NoFields ==
    [Y |-> -1, m |-> 1, d |-> 1, H |-> 0, I |-> -1, M |-> 0, S |-> 0, p |-> -1,
     none |-> 0]

NoMatch == [ok |-> FALSE, end |-> 0, fields |-> NoFields]

\* format_regex.match(data_string): the first match in backtracking order
RECURSIVE MatchFrom(_, _, _, _, _), FirstOk(_, _, _, _, _, _, _)
MatchFrom(fmt, k, s, pos, fields) ==
    IF k > Len(fmt) THEN [ok |-> TRUE, end |-> pos, fields |-> fields]
    ELSE FirstOk(fmt, k, s, pos, fields, Candidates(fmt[k], s, pos), 1)

FirstOk(fmt, k, s, pos, fields, cands, j) ==
    IF j > Len(cands) THEN NoMatch
    ELSE LET r == MatchFrom(fmt, k + 1, s, pos + cands[j].len,
                            [fields EXCEPT ![FieldOf(fmt[k])] = cands[j].val])
         IN  IF r.ok THEN r ELSE FirstOk(fmt, k, s, pos, fields, cands, j + 1)

\* the text has the shape of the format: the regular expression matches
\* and nothing is left over
MatchesShape(s, fmt) ==
    LET r == MatchFrom(fmt, 1, s, 1, NoFields)
    IN  r.ok /\ r.end = Len(s) + 1

IsLeap(y) == y % 4 = 0 /\ (y % 100 # 0 \/ y % 400 = 0)

DaysInMonth(y, m) ==
    IF m = 2 THEN (IF IsLeap(y) THEN 29 ELSE 28)
    ELSE IF m \in {4, 6, 9, 11} THEN 30 ELSE 31

\* datetime(year, month, day, hour, minute, second) exists
DatetimeExists(dt) ==
    /\ dt.year \in 1..9999
    /\ dt.month \in 1..12
    /\ dt.day \in 1..DaysInMonth(dt.year, dt.month)
    /\ dt.hour \in 0..23 /\ dt.minute \in 0..59 /\ dt.second \in 0..59

\* the hour of a 12-hour clock: 12 AM is 0, 12 PM is 12; no AM/PM reads as AM
Hour12(I, p) ==
    IF p = 2 THEN (IF I # 12 THEN I + 12 ELSE I) ELSE (IF I = 12 THEN 0 ELSE I)

FieldsToDatetime(f) ==
    [year |-> IF f.Y = -1 THEN 1900 ELSE f.Y, month |-> f.m, day |-> f.d,
     hour |-> IF f.I # -1 THEN Hour12(f.I, f.p) ELSE f.H,
     minute |-> f.M, second |-> f.S]

NoDatetime == [year |-> 0, month |-> 0, day |-> 0, hour |-> 0, minute |-> 0, second |-> 0]

\* datetime.strptime(x, fmt): the datetime, or the exception raised
strptime(x, fmt) ==
    IF x.t # "str" THEN [ok |-> FALSE, exc |-> "TypeError", dt |-> NoDatetime]
    ELSE LET r == MatchFrom(fmt, 1, x.v, 1, NoFields)
             dt == FieldsToDatetime(r.fields)
         IN  IF r.ok /\ r.end = Len(x.v) + 1 /\ DatetimeExists(dt)
             THEN [ok |-> TRUE, exc |-> "None", dt |-> dt]
             ELSE [ok |-> FALSE, exc |-> "ValueError", dt |-> NoDatetime]

(***************************************************************************)
(* DateValidator.                                                          *)
(***************************************************************************)
\* DateValidator.supported_formats, in the order of the list
supported_formats ==
    << <<"%Y", "-", "%m", "-", "%d">>,
       <<"%Y", "-", "%m", "-", "%d", " ", "%H", ":", "%M">>,
       <<"%Y", "-", "%m", "-", "%d", " ", "%H", ":", "%M", ":", "%S">>,
       <<"%d", "/", "%m", "/", "%Y">>,
       <<"%d", "/", "%m", "/", "%Y", " ", "%H", ":", "%M">>,
       <<"%d", "/", "%m", "/", "%Y", " ", "%H", ":", "%M", ":", "%S">>,
       <<"%m", "/", "%d", "/", "%Y">>,
       <<"%m", "/", "%d", "/", "%Y", " ", "%H", ":", "%M">>,
       <<"%m", "/", "%d", "/", "%Y", " ", "%H", ":", "%M", ":", "%S">>,
       <<"%Y", "-", "%m", "-", "%d", " ", "%I", ":", "%M", " ", "%p">>,
       <<"%Y", "-", "%m", "-", "%d", " ", "%I", ":", "%M", ":", "%S", " ", "%p">>,
       <<"%d", "/", "%m", "/", "%Y", " ", "%I", ":", "%M", " ", "%p">>,
       <<"%d", "/", "%m", "/", "%Y", " ", "%I", ":", "%M", ":", "%S", " ", "%p">>,
       <<"%m", "/", "%d", "/", "%Y", " ", "%I", ":", "%M", " ", "%p">>,
       <<"%m", "/", "%d", "/", "%Y", " ", "%I", ":", "%M", ":", "%S", " ", "%p">>,
       <<"%d", " ", "%b", " ", "%Y">>,
       <<"%d", " ", "%B", " ", "%Y">>,
       <<"%d", " ", "%B", " ", "%Y", " ", "%H", ":", "%M">>,
       <<"%d", " ", "%B", " ", "%Y", " ", "%H", ":", "%M", ":", "%S">> >>

\* the loop of determine_format from formats[i] on: the first format that
\* parses is returned; a ValueError moves on to the next format
RECURSIVE TryFormats(_, _, _)
TryFormats(formats, date_string, i) ==
    IF i > Len(formats) THEN Invalid("UnrecognizedFormat", 400)
    ELSE LET r == strptime(date_string, formats[i])
         IN  IF r.ok THEN Valid(PyStr(formats[i]))
             ELSE IF r.exc = "ValueError" THEN TryFormats(formats, date_string, i + 1)
             ELSE Crash(r.exc)

\* the list with the month-first formats tried before the day-first ones
MonthFirstFormats ==
    [i \in DOMAIN supported_formats |->
        IF FieldOf(supported_formats[i][1]) = "d" /\ supported_formats[i][2] = "/"
        THEN supported_formats[i + (IF i < 10 THEN 3 ELSE 2)]
        ELSE IF FieldOf(supported_formats[i][1]) = "m"
        THEN supported_formats[i - (IF i < 10 THEN 3 ELSE 2)]
        ELSE supported_formats[i]]

determine_format_month_first(date_string) ==
    TryFormats(MonthFirstFormats, date_string, 1)

\* DateValidator.determine_format
determine_format(date_string) == TryFormats(supported_formats, date_string, 1)

\* DateValidator.validate_calendar_date(date_format)
validate_calendar_date(date_string, date_format) ==
    LET r == strptime(date_string, date_format)
    IN  IF r.ok THEN [ok |-> TRUE, out |-> Valid(PyNone), dt |-> r.dt]
        ELSE IF r.exc = "ValueError"
             THEN [ok |-> FALSE, out |-> Invalid("InvalidCalendarDate", 400), dt |-> r.dt]
        ELSE [ok |-> FALSE, out |-> Crash(r.exc), dt |-> r.dt]

FutureYearIncludesCurrent(date_obj, now) == date_obj.year >= now[1]

\* the condition of validate_not_future_year: now is <<year, month, day>>
IsFutureYear(date_obj, now) == date_obj.year > now[1]

\* the condition of validate_month
IsBadMonth(date_obj) == date_obj.month < 1 \/ date_obj.month > 12

\* DateValidator(date_string).validate
DateValidator_validate(date_string, now) ==
    LET date_format == determine_format(date_string)
        parsed == validate_calendar_date(date_string, date_format.ret.v)
    IN  IF date_format.kind # "Valid" THEN date_format
        ELSE IF ~parsed.ok THEN parsed.out
        ELSE IF IsFutureYear(parsed.dt, now) THEN Invalid("FutureYear", 400)
        ELSE IF IsBadMonth(parsed.dt) THEN Invalid("InvalidMonth", 400)
        ELSE Valid(PyNone)

(***************************************************************************)
(* CrossFieldDateValidator.                                                *)
(***************************************************************************)
\* the methods an instance has: those of DateValidator and its own
CrossFieldDateValidatorMethods ==
    {"determine_format", "validate_calendar_date", "validate_not_future_year",
     "validate_month", "validate", "validate_start_before_end"}

\* a < b for datetimes
DatetimeLess(a, b) ==
    LET ka == <<a.year, a.month, a.day, a.hour, a.minute, a.second>>
        kb == <<b.year, b.month, b.day, b.hour, b.minute, b.second>>
    IN  \E i \in 1..6 : ka[i] < kb[i] /\ \A j \in 1..(i - 1) : ka[j] = kb[j]

\* CrossFieldDateValidator.validate_start_before_end
validate_start_before_end(start_date, end_date) ==
    IF ~DatetimeLess(start_date, end_date) THEN Invalid("RangeInverted", 400)
    ELSE Valid(PyNone)

\* CrossFieldDateValidator(start_date, end_date).validate: its second
\* statement calls self.validate_date_format(), which no class defines, and
\* validate_calendar_date() is called without its date_format argument
CrossFieldDateValidator_validate(start_date, end_date) ==
    IF "validate_date_format" \notin CrossFieldDateValidatorMethods
    THEN Crash("AttributeError")
    ELSE Crash("TypeError")

(***************************************************************************)
(* The contact family: validators built on MinMaxLengthValidator.          *)
(***************************************************************************)
\* html.escape(x): a value that is no string has no replace method
EscapeFails(x) == x.t # "str"

\* r"^\+?[1-9]\d{0,2}[-.\s]?\(?\d{1,4}\)?[-.\s]?\d{1,4}[-.\s]?\d{1,9}$"
PhoneSeparator == Opt(Cls({"-", "."} \cup Whitespace))

PhoneRegex ==
    Cat(<<Opt(Lit("+")), Cls(D19), Rep(ClassDigit, 0, 2), PhoneSeparator,
          Opt(Lit("(")), Rep(ClassDigit, 1, 4), Opt(Lit(")")), PhoneSeparator,
          Rep(ClassDigit, 1, 4), PhoneSeparator, Rep(ClassDigit, 1, 9)>>)

\* re.sub(r"[^\d]", "", s)
DigitsOnly(s) == SelectSeq(s, LAMBDA c : c \in Digits)

ValidPhoneNumberText == <<"V", "a", "l", "i", "d", " ", "p", "h", "o", "n", "e", " ", "n", "u", "m", "b", "e", "r", ".">>

PhoneLengthOfWholeText(min_length, max_length, x) ==
    IF ~Truthy(x) THEN raise_validation_error("EmptyValue")
    ELSE IF EscapeFails(x) THEN Crash("AttributeError")
    ELSE LET phonenumber == html_escape(x.v)
             length == MinMaxLengthValidator_validate(min_length, max_length,
                                                      PyStr(phonenumber))
         IN  IF ~re_fullmatch(PhoneRegex, phonenumber)
             THEN raise_validation_error("BadFormat")
             ELSE IF length.kind # "Valid" THEN length
             ELSE Valid(PyStr(ValidPhoneNumberText))

\* PhoneNumberValidator(min_length, max_length).validate
PhoneNumberValidator_validate(min_length, max_length, x) ==
    IF ~Truthy(x) THEN raise_validation_error("EmptyValue")
    ELSE IF EscapeFails(x) THEN Crash("AttributeError")
    ELSE LET phonenumber == html_escape(x.v)
             digits_only == DigitsOnly(phonenumber)
             length == MinMaxLengthValidator_validate(min_length, max_length,
                                                      PyStr(digits_only))
         IN  IF ~re_fullmatch(PhoneRegex, phonenumber)
             THEN raise_validation_error("BadFormat")
             ELSE IF length.kind # "Valid" THEN length
             ELSE Valid(PyStr(ValidPhoneNumberText))

\* r"^[a-z0-9_.+-]+@[a-z0-9-]+\.[a-z0-9-.]+$" with re.IGNORECASE
EmailRegex ==
    Cat(<<Plus(Cls(Letters \cup Digits \cup {"_", ".", "+", "-"})), Lit("@"),
          Plus(Cls(Letters \cup Digits \cup {"-"})), Lit("."),
          Plus(Cls(Letters \cup Digits \cup {"-", "."}))>>)

\* the index of the first c in s, 0 when s has none
IndexOf(s, c) ==
    IF \E i \in DOMAIN s : s[i] = c
    THEN CHOOSE i \in DOMAIN s : s[i] = c /\ \A j \in 1..(i - 1) : s[j] # c
    ELSE 0

\* the answers of dns.resolver.resolve(domain, 'MX'): records found, or the
\* exception raised
ResolverAnswers == {"found", "NoAnswer", "NXDOMAIN", "Timeout", "NoNameservers"}

\* EmailValidator.validate with dns.resolver.resolve called before the format
\* check
EmailChecksLookupBeforeFormat(min_length, max_length, x) ==
    IF EscapeFails(x) THEN [out |-> Crash("AttributeError"), domain |-> <<>>]
    ELSE LET emailid == html_escape(x.v)
             length == MinMaxLengthValidator_validate(min_length, max_length,
                                                      PyStr(emailid))
             at == IndexOf(emailid, "@")
         IN  [domain |-> Slice(emailid, at + 1, Len(emailid)),
              out |->
                IF length.kind # "Valid" THEN length
                ELSE IF emailid = <<>> THEN raise_validation_error("EmptyValue")
                ELSE IF at = 0 THEN Crash("ValueError")
                ELSE IF Len(Slice(emailid, 1, at - 1)) < 3
                     THEN raise_validation_error("UsernameTooShort")
                ELSE IF \E i \in DOMAIN emailid : emailid[i] \in UpperLetters
                     THEN raise_validation_error("UppercaseNotAllowed")
                ELSE NoOutcome]

\* EmailValidator(min_length, max_length).validate up to the MX lookup: out
\* is how the call ends before the lookup, NoOutcome when it reaches the
\* lookup; domain is the second part of emailid.split('@', 1)
EmailChecks(min_length, max_length, x) ==
    IF EscapeFails(x) THEN [out |-> Crash("AttributeError"), domain |-> <<>>]
    ELSE LET emailid == html_escape(x.v)
             length == MinMaxLengthValidator_validate(min_length, max_length,
                                                      PyStr(emailid))
             at == IndexOf(emailid, "@")
         IN  [domain |-> Slice(emailid, at + 1, Len(emailid)),
              out |->
                IF length.kind # "Valid" THEN length
                ELSE IF emailid = <<>> THEN raise_validation_error("EmptyValue")
                ELSE IF at = 0 THEN Crash("ValueError")
                ELSE IF Len(Slice(emailid, 1, at - 1)) < 3
                     THEN raise_validation_error("UsernameTooShort")
                ELSE IF \E i \in DOMAIN emailid : emailid[i] \in UpperLetters
                     THEN raise_validation_error("UppercaseNotAllowed")
                ELSE IF ~re_match_dollar(EmailRegex, emailid)
                     THEN raise_validation_error("BadFormat")
                ELSE NoOutcome]

\* the domains the call passes to dns.resolver.resolve(domain, 'MX')
EmailLookups(min_length, max_length, x) ==
    IF EmailChecks(min_length, max_length, x).out = NoOutcome
    THEN <<EmailChecks(min_length, max_length, x).domain>>
    ELSE <<>>

\* EmailValidator(min_length, max_length).validate, mx the resolver's answer
EmailValidator_validate(min_length, max_length, x, mx) ==
    IF EmailChecks(min_length, max_length, x).out # NoOutcome
    THEN EmailChecks(min_length, max_length, x).out
    ELSE IF mx \in {"NoAnswer", "NXDOMAIN"}
         THEN raise_validation_error("DomainUnresolvable")
    ELSE IF mx # "found" THEN Crash(mx)
    ELSE Valid(PyBool(TRUE))

\* r"^\d{5}(-\d{4})?$"
ZipcodeRegex ==
    Cat(<<Rep(ClassDigit, 5, 5), Opt(Cat(<<Lit("-"), Rep(ClassDigit, 4, 4)>>))>>)

ValidZipCodeText == <<"V", "a", "l", "i", "d", " ", "z", "i", "p", " ", "c", "o", "d", "e", ".">>

\* ZipcodeValidator(min_length, max_length).validate
ZipcodeValidator_validate(min_length, max_length, x) ==
    IF ~Truthy(x) THEN raise_validation_error("EmptyValue")
    ELSE IF EscapeFails(x) THEN Crash("AttributeError")
    ELSE LET zipcode == html_escape(x.v)
             length == MinMaxLengthValidator_validate(min_length, max_length,
                                                      PyStr(zipcode))
         IN  IF length.kind # "Valid" THEN length
             ELSE IF ~re_fullmatch(ZipcodeRegex, zipcode)
                  THEN raise_validation_error("BadFormat")
             ELSE Valid(PyStr(ValidZipCodeText))

ValidPincodeText == <<"V", "a", "l", "i", "d", " ", "p", "i", "n", "c", "o", "d", "e", ".">>

\* PincodeValidator(min_length, max_length).validate, r"^\d{6}$"
PincodeValidator_validate(min_length, max_length, x) ==
    IF ~Truthy(x) THEN raise_validation_error("EmptyValue")
    ELSE IF EscapeFails(x) THEN Crash("AttributeError")
    ELSE LET pincode == html_escape(x.v)
             length == MinMaxLengthValidator_validate(min_length, max_length,
                                                      PyStr(pincode))
         IN  IF length.kind # "Valid" THEN length
             ELSE IF ~re_fullmatch(Rep(ClassDigit, 6, 6), pincode)
                  THEN raise_validation_error("BadFormat")
             ELSE Valid(PyStr(ValidPincodeText))

(***************************************************************************)
(* The file family.  An uploaded file is [filename, size, pos]: the name,  *)
(* the number of bytes of its stream, and the stream's read position.      *)
(***************************************************************************)
LastIndexOf(s, c) ==
    IF \E i \in DOMAIN s : s[i] = c
    THEN CHOOSE i \in DOMAIN s : s[i] = c /\ \A j \in (i + 1)..Len(s) : s[j] # c
    ELSE 0

\* os.path.splitext(file_name)[1]: from the last dot of the last path
\* component, unless only dots precede it there
splitext_ext(file_name) ==
    LET sep == LastIndexOf(file_name, "/")
        dot == LastIndexOf(file_name, ".")
    IN  IF dot > sep /\ \E i \in (sep + 1)..(dot - 1) : file_name[i] # "."
        THEN SubSeq(file_name, dot, Len(file_name))
        ELSE <<>>

\* r'^[\w_]+\.[a-zA-Z0-9]+$'
FileNameRegex ==
    Cat(<<Plus(Cls(WordChars)), Lit("."), Plus(Cls(Letters \cup Digits))>>)

\* FileValidator.validate_file_name
validate_file_name(file_name) ==
    IF ~re_match_dollar(FileNameRegex, file_name)
    THEN raise_validation_error("BadFileName")
    ELSE Valid(PyNone)

\* FileValidator.__init__: the allowed extensions are lower-cased
LowerAll(allowed_extensions) ==
    [i \in DOMAIN allowed_extensions |-> LowerStr(allowed_extensions[i])]

\* FileValidator.validate_file_type
validate_file_type(allowed_extensions, file_name) ==
    IF LowerStr(splitext_ext(file_name)) \notin Range(LowerAll(allowed_extensions))
    THEN raise_validation_error("UnsupportedType")
    ELSE Valid(PyNone)

BytesPerMB == 1024 * 1024

\* FileValidator.validate_file_size: read() returns the bytes from the read
\* position to the end and leaves the position at the end; seek(0) is
\* reached only when the size check has not raised
validate_file_size(max_file_size_mb, f) ==
    LET file_size == f.size - f.pos
        afterRead == [f EXCEPT !.pos = f.size]
    IN  IF file_size > max_file_size_mb * BytesPerMB
        THEN [out |-> raise_validation_error("FileTooLarge"), file |-> afterRead]
        ELSE [out |-> Valid(PyNone), file |-> [afterRead EXCEPT !.pos = 0]]

\* FileValidator(allowed_extensions, max_file_size_mb).validate
FileValidator_validate(allowed_extensions, max_file_size_mb, f) ==
    LET name == validate_file_name(f.filename)
        type == validate_file_type(allowed_extensions, f.filename)
    IN  IF name.kind # "Valid" THEN [out |-> name, file |-> f]
        ELSE IF type.kind # "Valid" THEN [out |-> type, file |-> f]
        ELSE validate_file_size(max_file_size_mb, f)

\* DocumentValidator.__init__: [".pdf", ".docx", "xlsx"]
DocumentExtensions ==
    << <<".", "p", "d", "f">>, <<".", "d", "o", "c", "x">>, <<"x", "l", "s", "x">> >>

\* ImageValidator.__init__: [".jpg", ".jpeg", ".png", ".gif"]
ImageExtensions ==
    << <<".", "j", "p", "g">>, <<".", "j", "p", "e", "g">>, <<".", "p", "n", "g">>,
       <<".", "g", "i", "f">> >>

(***************************************************************************)
(* The inputs the model draws.                                             *)
(***************************************************************************)
MaxNumLen == 3

MaxDecLen == 5

MaxPwdTail == 4

MaxMonthField == 13

MaxDayField == 32

MaxCalls == 2

NoParams == [none |-> 0]

NoFile == [filename |-> <<>>, size |-> 0, pos |-> 0]

DefaultToday == <<2024, 6, 15>>

\* values that are no strings: integers, booleans and None
OtherKinds == {PyInt(5), PyInt(0), PyBool(TRUE), PyBool(FALSE), PyNone}

StrValues(S) == {PyStr(s) : s \in S}

NumAlphabet == {"0", "1", "5", "8", "-", ".", "e", "n", "a", " "}

NumericInputs == StrValues(Strs(NumAlphabet, MaxNumLen)) \cup OtherKinds

RangeParams ==
    [min_value : {PyNone, PyInt(0), PyInt(10)}, max_value : {PyNone, PyInt(10), PyInt(15)}]

DefaultMinAge == 18

AgeParams == [min_age : {PyInt(DefaultMinAge), PyInt(15)}]

DecAlphabet == {"1", "-", ".", "\n", "a"}

DecimalInputs ==
    StrValues(Strs(DecAlphabet, MaxDecLen)
              \cup {<<"1", "2", ".", "3", "4", "5">>, <<"1", "2", ".", "3", "4">>, <<"1", "2", ".", "3", "4", "\n">>})
    \cup OtherKinds

DecimalParams == [max_decimal_places : {PyNone, PyInt(0), PyInt(1), PyInt(2)}]

PwdAlphabet == {"a", "A", "1", "!", "_"}

Filler(n) == [i \in 1..n |-> "_"]

PasswordInputs ==
    StrValues({Filler(n) \o t : n \in {0, 3, 4, 7}, t \in Strs(PwdAlphabet, MaxPwdTail)}
              \cup {<<"a", "b", "c", "1", "2", "3", "4", "5">>, <<"A", "b", "c", "1", "2", "3", "!", "@">>})
    \cup OtherKinds

(***************************************************************************)
(* Date texts.                                                             *)
(***************************************************************************)
Pad2(n) == IF n < 10 THEN <<"0">> \o NatChars(n) ELSE NatChars(n)

Pad4(n) == Filler(0) \o [i \in 1..(4 - Len(NatChars(n))) |-> "0"] \o NatChars(n)

MonthTexts == {Pad2(n) : n \in {0, 1, 2, 4, 12, MaxMonthField}} \cup {<<"1">>}

DayTexts == {Pad2(n) : n \in 0..MaxDayField} \cup {<<"1">>, <<"9">>}

SlashTexts == {Pad2(n) : n \in {0, 1, 2, 4, 12, 13, 29, 30, 31, MaxDayField}} \cup {<<"1">>}

IsoTexts(Y, M, D) == {Pad4(y) \o <<"-">> \o m \o <<"-">> \o d : y \in Y, m \in M, d \in D}

SlashDateTexts(A, B, Y) ==
    {a \o <<"/">> \o b \o <<"/">> \o Pad4(y) : a \in A, b \in B, y \in Y}

TimeTexts ==
    {<<" ", "1", "0", ":", "3", "0">>, <<" ", "1", "0", ":", "3", "0", ":", "5", "9">>, <<" ", "1", "0", ":", "3", "0", ":", "6", "0">>, <<" ", "2", "4", ":", "0", "0">>,
     <<" ", "1", "2", ":", "3", "0", " ", "P", "M">>, <<" ", "1", "2", ":", "3", "0", ":", "1", "5", " ", "a", "m">>, <<" ", "1", "3", ":", "0", "0", " ", "P", "M">>,
     <<" ", " ", "7", ":", "5">>, <<" ", "1", "2", ":", "3", "0", " ", "A", "M">>, <<" ", "1", ":", "0", "5", ":", "0", "9", " ", "p", "m">>}

NamedDateTexts ==
    {d \o <<" ">> \o m \o <<" ">> \o Pad4(y) \o t :
        d \in {<<"1">>, <<"2", "9">>, <<"3", "0">>, <<"3", "1">>},
        m \in {<<"F", "e", "b">>, <<"F", "e", "b", "r", "u", "a", "r", "y">>, <<"m", "a", "y">>, <<"F", "e", "x">>},
        y \in {2024, 2025}, t \in {<<>>, <<" ", "1", "0", ":", "3", "0">>}}

DateTexts ==
    IsoTexts({0, 1900, 2000, 2023, 2024, 2025}, MonthTexts, DayTexts)
    \cup SlashDateTexts(DayTexts, SlashTexts, {2023, 2024, 2025})
    \cup {d \o t : d \in IsoTexts({2024, 2025}, {<<"0", "2">>}, {<<"2", "9">>, <<"3", "0">>})
                       \cup SlashDateTexts({<<"0", "1">>, <<"1", "3">>}, {<<"0", "2">>, <<"1", "3">>},
                                           {2024, 2025}),
                   t \in TimeTexts}
    \cup NamedDateTexts
    \cup {<<>>, <<"a", "b", "c">>, <<"2", "0", "2", "4", "-", "0", "2", "-", "2", "9", "x">>, <<"2", "0", "2", "4", "-", "0", "2", "-", "2", "9", "\n">>}

DateInputs == StrValues(DateTexts) \cup OtherKinds

Clocks == {<<2023, 12, 31>>, <<2024, 6, 15>>}

CrossTexts ==
    IsoTexts({2023, 2024}, {<<"0", "1">>}, {<<"0", "1">>}) \cup {<<"2", "0", "2", "4", "-", "0", "2", "-", "3", "0">>, <<"a", "b", "c">>, <<>>}

CrossParams == [start_date : StrValues(CrossTexts) \cup {PyNone},
                end_date : StrValues(CrossTexts) \cup {PyNone}]

(***************************************************************************)
(* Uploaded files and file validators.                                     *)
(***************************************************************************)
FileNames ==
    {stem \o ext : stem \in {<<"a">>, <<"a", "_", "b">>, <<"a", " ", "b">>},
                   ext \in {<<".", "p", "d", "f">>, <<".", "P", "D", "F">>, <<".", "d", "o", "c", "x">>, <<".", "x", "l", "s", "x">>,
                            <<".", "j", "p", "g">>, <<".", "e", "x", "e">>, <<>>, <<".", "p", "d", "f", "\n">>}}

FileSizes == {0, 1} \cup {mb * BytesPerMB + d : mb \in {1, 2, 5}, d \in {0, 1}}

Files == [filename : FileNames, size : FileSizes, pos : {0}]

FileParams ==
    [allowed_extensions : {<<<<".", "P", "D", "F">>>>, <<<<".", "j", "p", "g">>, <<".", "e", "x", "e">>>>}, max_file_size_mb : {1, 2}]

DocumentParams == [max_file_size_mb : {2, 1}]

ImageParams == [max_file_size_mb : {5, 1}]

(***************************************************************************)
(* The state machine.  A validator object is constructed with its          *)
(* parameters and given one value (Init); each action is one call of its   *)
(* validate method.  An uploaded file keeps its read position from one     *)
(* call to the next.                                                       *)
(***************************************************************************)
Start(v, P, X, F, T) ==
    /\ validator = v
    /\ params \in P
    /\ value \in X
    /\ file \in F
    /\ today \in T
    /\ outcome = NoOutcome
    /\ previous = NoOutcome
    /\ calls = 0
    /\ lookups = <<>>

Plain(v, P, X) == Start(v, P, X, {NoFile}, {DefaultToday})

Return(o) ==
    /\ outcome' = o
    /\ previous' = outcome
    /\ calls' = calls + 1
    /\ UNCHANGED <<validator, params, value, file, today, lookups>>

InitNumeric ==
    \/ Plain("NumericValidator", {NoParams}, NumericInputs)
    \/ Plain("RangeValidator", RangeParams, NumericInputs)
    \/ Plain("AgeValidator", AgeParams, NumericInputs)

InitDecimal == Plain("DecimalValidator", DecimalParams, DecimalInputs)

InitPassword == Plain("PasswordValidator", {NoParams}, PasswordInputs)

InitDate ==
    \/ Start("DateValidator", {NoParams}, DateInputs, {NoFile}, Clocks)
    \/ Plain("DateValidator.determine_format", {NoParams}, DateInputs)
    \/ Plain("CrossFieldDateValidator", CrossParams, {PyNone})

InitFile ==
    \/ Start("FileValidator", FileParams, {PyNone}, Files, {DefaultToday})
    \/ Start("DocumentValidator", DocumentParams, {PyNone}, Files, {DefaultToday})
    \/ Start("ImageValidator", ImageParams, {PyNone}, Files, {DefaultToday})

Call_NumericValidator ==
    /\ validator = "NumericValidator" /\ calls = 0
    /\ Return(NumericValidator_validate(value))

Call_RangeValidator ==
    /\ validator = "RangeValidator" /\ calls = 0
    /\ Return(RangeValidator_validate(params.min_value, params.max_value, value))

Call_AgeValidator ==
    /\ validator = "AgeValidator" /\ calls = 0
    /\ Return(AgeValidator_validate(params.min_age, value))

Call_DecimalValidator ==
    /\ validator = "DecimalValidator" /\ calls = 0
    /\ Return(DecimalValidator_validate(params.max_decimal_places, value))

Call_PasswordValidator ==
    /\ validator = "PasswordValidator" /\ calls = 0
    /\ Return(PasswordValidator_validate(value))

Call_DateValidator ==
    /\ validator = "DateValidator" /\ calls = 0
    /\ Return(DateValidator_validate(value, today))

Call_determine_format ==
    /\ validator = "DateValidator.determine_format" /\ calls = 0
    /\ Return(determine_format(value))

Call_CrossFieldDateValidator ==
    /\ validator = "CrossFieldDateValidator" /\ calls = 0
    /\ Return(CrossFieldDateValidator_validate(params.start_date, params.end_date))

\* a call of validate on the uploaded file: the file object is shared with
\* the caller, so the position the call leaves is the next call's start
ValidateFile(allowed_extensions) ==
    LET r == FileValidator_validate(allowed_extensions, params.max_file_size_mb, file)
    IN  /\ calls < MaxCalls
        /\ outcome' = r.out
        /\ file' = r.file
        /\ previous' = outcome
        /\ calls' = calls + 1
        /\ UNCHANGED <<validator, params, value, today, lookups>>

Call_FileValidator ==
    /\ validator = "FileValidator"
    /\ ValidateFile(params.allowed_extensions)

Call_DocumentValidator ==
    /\ validator = "DocumentValidator"
    /\ ValidateFile(DocumentExtensions)

Call_ImageValidator ==
    /\ validator = "ImageValidator"
    /\ ValidateFile(ImageExtensions)

NextNumeric == Call_NumericValidator \/ Call_RangeValidator \/ Call_AgeValidator

NextDate == Call_DateValidator \/ Call_determine_format \/ Call_CrossFieldDateValidator

NextFile == Call_FileValidator \/ Call_DocumentValidator \/ Call_ImageValidator

SpecNumeric == InitNumeric /\ [][NextNumeric]_vars

SpecDecimal == InitDecimal /\ [][Call_DecimalValidator]_vars

SpecPassword == InitPassword /\ [][Call_PasswordValidator]_vars

SpecDate == InitDate /\ [][NextDate]_vars

SpecFile == InitFile /\ [][NextFile]_vars

(***************************************************************************)
(* Every validator of the set on empty input and on input of each kind.    *)
(***************************************************************************)
KindInputs ==
    StrValues({<<>>, <<"5">>, <<"a", "b", "c">>, <<"1", "2", "3", "4", "5">>}) \cup OtherKinds

LengthParams ==
    [min_length : {PyNone, PyInt(0), PyInt(1), PyInt(5)},
     max_length : {PyNone, PyInt(0), PyInt(3), PyInt(10)}]

PhoneParams ==
    {[min_length |-> PyInt(8), max_length |-> PyInt(14)],
     [min_length |-> PyInt(0), max_length |-> PyNone]}

EmailParams ==
    {[min_length |-> PyInt(5), max_length |-> PyInt(254)],
     [min_length |-> PyInt(0), max_length |-> PyNone]}

ZipcodeParams ==
    {[min_length |-> PyInt(5), max_length |-> PyInt(10)],
     [min_length |-> PyInt(0), max_length |-> PyNone]}

PincodeParams ==
    {[min_length |-> PyInt(6), max_length |-> PyInt(6)],
     [min_length |-> PyInt(0), max_length |-> PyNone]}

KindCrossParams == [start_date : KindInputs, end_date : KindInputs]

InitKinds ==
    \/ Plain("NumericValidator", {NoParams}, KindInputs)
    \/ Plain("RangeValidator", RangeParams, KindInputs)
    \/ Plain("AgeValidator", AgeParams, KindInputs)
    \/ Plain("DecimalValidator", DecimalParams, KindInputs)
    \/ Plain("MinMaxLengthValidator", LengthParams, KindInputs)
    \/ Plain("AlphanumericValidator", {NoParams}, KindInputs)
    \/ Plain("AlphabetSetValidator", {NoParams}, KindInputs)
    \/ Plain("PhoneNumberValidator", PhoneParams, KindInputs)
    \/ Plain("EmailValidator", EmailParams, KindInputs)
    \/ Plain("ZipcodeValidator", ZipcodeParams, KindInputs)
    \/ Plain("PincodeValidator", PincodeParams, KindInputs)
    \/ Start("DateValidator", {NoParams}, KindInputs, {NoFile}, Clocks)
    \/ Plain("CrossFieldDateValidator", KindCrossParams, {PyNone})
    \/ Plain("BooleanValidator", {NoParams}, KindInputs)
    \/ Plain("PasswordValidator", {NoParams}, KindInputs)

Call_MinMaxLengthValidator ==
    /\ validator = "MinMaxLengthValidator" /\ calls = 0
    /\ Return(MinMaxLengthValidator_validate(params.min_length, params.max_length, value))

Call_AlphanumericValidator ==
    /\ validator = "AlphanumericValidator" /\ calls = 0
    /\ Return(AlphanumericValidator_validate(value))

Call_AlphabetSetValidator ==
    /\ validator = "AlphabetSetValidator" /\ calls = 0
    /\ Return(AlphabetSetValidator_validate(value))

Call_PhoneNumberValidator ==
    /\ validator = "PhoneNumberValidator" /\ calls = 0
    /\ Return(PhoneNumberValidator_validate(params.min_length, params.max_length, value))

\* the answer of the MX lookup is the resolver's, not the validator's
Call_EmailValidator ==
    /\ validator = "EmailValidator" /\ calls = 0
    /\ \E mx \in ResolverAnswers :
          outcome' = EmailValidator_validate(params.min_length, params.max_length, value, mx)
    /\ lookups' = lookups \o EmailLookups(params.min_length, params.max_length, value)
    /\ previous' = outcome
    /\ calls' = calls + 1
    /\ UNCHANGED <<validator, params, value, file, today>>

Call_ZipcodeValidator ==
    /\ validator = "ZipcodeValidator" /\ calls = 0
    /\ Return(ZipcodeValidator_validate(params.min_length, params.max_length, value))

Call_PincodeValidator ==
    /\ validator = "PincodeValidator" /\ calls = 0
    /\ Return(PincodeValidator_validate(params.min_length, params.max_length, value))

Call_BooleanValidator ==
    /\ validator = "BooleanValidator" /\ calls = 0
    /\ Return(BooleanValidator_validate(value))

NextKinds ==
    \/ Call_NumericValidator
    \/ Call_RangeValidator
    \/ Call_AgeValidator
    \/ Call_DecimalValidator
    \/ Call_MinMaxLengthValidator
    \/ Call_AlphanumericValidator
    \/ Call_AlphabetSetValidator
    \/ Call_PhoneNumberValidator
    \/ Call_EmailValidator
    \/ Call_ZipcodeValidator
    \/ Call_PincodeValidator
    \/ Call_DateValidator
    \/ Call_CrossFieldDateValidator
    \/ Call_BooleanValidator
    \/ Call_PasswordValidator

SpecKinds == InitKinds /\ [][NextKinds]_vars

(***************************************************************************)
(* The string, contact and boolean families: inputs and specifications.    *)
(***************************************************************************)
MaxTextLen == 4

MaxPhoneDigits == 16

MaxLocalLen == 3

MaxZipDigits == 6

MaxBoolInt == 2

\* n times the character c
Run(c, n) == [i \in 1..n |-> c]

LengthAlphabet == {"a", "<", "&", " "}

LengthInputs == StrValues(Strs(LengthAlphabet, MaxTextLen)) \cup OtherKinds

AlnumAlphabet == {"a", "Z", "1", " ", "-", "\n"}

AlnumInputs == StrValues(Strs(AlnumAlphabet, MaxTextLen)) \cup OtherKinds

PhoneAlphabet == {"1", "0", "+", "-", "(", ")", " ", "a"}

\* short texts of every shape, and digit groups behind the usual prefixes
PhoneTexts ==
    Strs(PhoneAlphabet, MaxTextLen)
    \cup {pre \o Run("1", n) \o post :
             pre \in {<<>>, <<"+">>, <<"+", "1", " ", "(", "2", "3", ")", " ">>,
                      <<"1", "-", "2", ".">>, <<"0">>},
             n \in 0..MaxPhoneDigits,
             post \in {<<>>, <<"-", "7", "8", "9", "0">>, <<"\n">>}}

PhoneInputs == StrValues(PhoneTexts) \cup OtherKinds

PhoneBounds ==
    PhoneParams \cup {[min_length |-> PyInt(5), max_length |-> PyInt(6)]}

EmailTexts ==
    {local \o at \o domain :
        local \in Strs({"a", "B", "<"}, MaxLocalLen),
        at \in {<<>>, <<"@">>, <<"@", "@">>},
        domain \in {<<>>, <<"b">>, <<"b", ".", "c">>, <<"B", ".", "c">>,
                    <<".", "c">>, <<"b", ".", "c", "\n">>, <<"b", ".", "c", " ">>}}

EmailInputs == StrValues(EmailTexts) \cup OtherKinds

EmailBounds ==
    EmailParams \cup {[min_length |-> PyInt(5), max_length |-> PyInt(8)]}

PostalTexts ==
    {Run("1", n) \o sep \o Run("2", k) \o tail :
        n \in 0..MaxZipDigits,
        sep \in {<<>>, <<"-">>, <<"<">>, <<"\n">>},
        k \in 0..(MaxZipDigits - 1),
        tail \in {<<>>, <<"a">>, <<"<">>}}

PostalInputs == StrValues(PostalTexts) \cup OtherKinds

BooleanInputs ==
    StrValues(Strs({"t", "r", "u", "e", "T", "1"}, MaxTextLen - 1))
    \cup {PyInt(n) : n \in 0..MaxBoolInt}
    \cup {PyStr(<<"t", "r", "u", "e">>), PyStr(<<"F", "a", "l", "s", "e">>)}
    \cup {PyBool(TRUE), PyBool(FALSE), PyNone}

InitLength == Plain("MinMaxLengthValidator", LengthParams, LengthInputs)

InitAlnum ==
    \/ Plain("AlphanumericValidator", {NoParams}, AlnumInputs)
    \/ Plain("AlphabetSetValidator", {NoParams}, AlnumInputs)

InitPhone == Plain("PhoneNumberValidator", PhoneBounds, PhoneInputs)

InitEmail == Plain("EmailValidator", EmailBounds, EmailInputs)

InitPostal ==
    \/ Plain("ZipcodeValidator", ZipcodeParams, PostalInputs)
    \/ Plain("PincodeValidator", PincodeParams, PostalInputs)

InitBoolean == Plain("BooleanValidator", {NoParams}, BooleanInputs)

SpecLength == InitLength /\ [][Call_MinMaxLengthValidator]_vars

SpecAlnum == InitAlnum /\ [][Call_AlphanumericValidator \/ Call_AlphabetSetValidator]_vars

SpecPhone == InitPhone /\ [][Call_PhoneNumberValidator]_vars

SpecEmail == InitEmail /\ [][Call_EmailValidator]_vars

SpecPostal == InitPostal /\ [][Call_ZipcodeValidator \/ Call_PincodeValidator]_vars

SpecBoolean == InitBoolean /\ [][Call_BooleanValidator]_vars

(***************************************************************************)
(* The /validate-age endpoint of main.py.                                  *)
(***************************************************************************)
\* AgeValidator.__init__(self, min_age: int = 18): its keyword parameters
AgeValidatorInitKeywords == {"min_age"}

AgeIsValidText == <<"A", "g", "e", " ", "i", "s", " ", "v", "a", "l", "i", "d", ".">>

\* validate_age_field(age, max_age): AgeValidator(max_age=max_age) is
\* constructed first; then validate(age), whose HTTPException is re-raised
\* and whose ValueError becomes HTTPException(400)
validate_age_field(age, max_age) ==
    IF "max_age" \notin AgeValidatorInitKeywords THEN Crash("TypeError")
    ELSE IF AgeValidator_validate(PyInt(DefaultMinAge), age).kind = "Valid"
    THEN Valid(PyStr(AgeIsValidText))
    ELSE IF AgeValidator_validate(PyInt(DefaultMinAge), age) = Crash("ValueError")
    THEN Invalid("NotANumber", 400)
    ELSE AgeValidator_validate(PyInt(DefaultMinAge), age)

MaxAge == 40

\* the query parameters of a request: age a number, max_age optional
AgeQueries == {PyInt(n) : n \in 0..MaxAge}

MaxAgeQueries == [max_age : {PyNone, PyInt(30), PyInt(100)}]

InitAge == Plain("validate_age_field", MaxAgeQueries, AgeQueries)

Call_validate_age_field ==
    /\ validator = "validate_age_field" /\ calls = 0
    /\ Return(validate_age_field(value, params.max_age))

SpecAge == InitAge /\ [][Call_validate_age_field]_vars

Init ==
    \/ InitAge
    \/ InitNumeric \/ InitDecimal \/ InitPassword \/ InitDate \/ InitFile \/ InitKinds
    \/ InitLength \/ InitAlnum \/ InitPhone \/ InitEmail \/ InitPostal \/ InitBoolean

Next ==
    \/ NextKinds
    \/ Call_validate_age_field
    \/ Call_determine_format
    \/ NextFile

Spec == Init /\ [][Next]_vars

(***************************************************************************)
(* Properties of the numeric family, under SpecNumeric.                    *)
(***************************************************************************)
\* v is of a kind RangeValidator declares: a string or a number
DeclaredNumericKind(x) == x.t \in {"str", "int"}

\* v < b and v > b, for an integer v by integer order and for a string v by
\* the order of the number it writes
BelowBound(x, b) == IF x.t = "int" THEN x.v < b ELSE FloatLT(float(x).f, b)

AboveBound(x, b) == IF x.t = "int" THEN x.v > b ELSE FloatGT(float(x).f, b)

RangeExpected(min_value, max_value, x) ==
    IF ~float(x).ok THEN raise_validation_error("NotANumber")
    ELSE IF min_value # PyNone /\ BelowBound(x, min_value.v)
         THEN raise_validation_error("BelowMin")
    ELSE IF max_value # PyNone /\ AboveBound(x, max_value.v)
         THEN raise_validation_error("AboveMax")
    ELSE Valid(PyBool(TRUE))

\* C7: RangeValidator(min, max).validate(v) answers NotANumber when v does
\* not parse as a number, otherwise BelowMin when min is set and v < min,
\* otherwise AboveMax when max is set and v > max, and is valid otherwise:
\* v = min and v = max are valid and an unset bound constrains nothing.
RangeChecksInOrder ==
    (validator = "RangeValidator" /\ calls = 1 /\ DeclaredNumericKind(value))
    => outcome = RangeExpected(params.min_value, params.max_value, value)

\* "10" given to RangeValidator(10, 10): both closed ends at once
RangeAcceptsItsBounds ==
    /\ validator = "RangeValidator" /\ calls = 1
    /\ value = PyStr(<<"1", "0">>)
    /\ params = [min_value |-> PyInt(10), max_value |-> PyInt(10)]
    /\ outcome.kind = "Valid"

\* C8: AgeValidator(min_age).validate(v) is valid exactly when v parses as
\* a number and v >= min_age; it answers NotANumber for a v that is no
\* number, BelowMin for v < min_age, and never rejects v for being large.
AgeValidIffAtLeastMinAge ==
    (validator = "AgeValidator" /\ calls = 1 /\ DeclaredNumericKind(value))
    => LET r == float(value)
           atLeast == r.ok /\ FloatCmp(r.f, params.min_age.v) \in {0, 1}
       IN  /\ outcome.kind = "Valid" <=> atLeast
           /\ ~r.ok => outcome.code = "NotANumber"
           /\ (r.ok /\ FloatLT(r.f, params.min_age.v)) => outcome.code = "BelowMin"
           /\ outcome.code # "AboveMax"

(***************************************************************************)
(* Properties of DecimalValidator, under SpecDecimal.                      *)
(***************************************************************************)
\* s is digits, and optionally a '.' followed by 1 to n digits
IsUnsignedDecimal(s, n) ==
    LET dots == {i \in DOMAIN s : s[i] = "."}
    IN  /\ s # <<>>
        /\ \A i \in DOMAIN s \ dots : s[i] \in Digits
        /\ \A d \in dots : dots = {d} /\ d > 1 /\ Len(s) - d \in 1..n

IsDecimalText(s, n) ==
    IF s # <<>> /\ Head(s) = "-" THEN IsUnsignedDecimal(Tail(s), n)
    ELSE IsUnsignedDecimal(s, n)

\* C9: for n >= 1 or n unset (then 10) DecimalValidator(n).validate(s) is
\* valid exactly when s is an optional '-', digits and an optional '.' with
\* 1 to n digits, nothing before or after; any other string is NotADecimal.
DecimalValidIffDecimalText ==
    (/\ validator = "DecimalValidator" /\ calls = 1 /\ value.t = "str"
     /\ (params.max_decimal_places = PyNone \/ params.max_decimal_places.v >= 1))
    => LET n == IF params.max_decimal_places = PyNone THEN 10
                ELSE params.max_decimal_places.v
       IN  IF IsDecimalText(value.v, n) THEN outcome.kind = "Valid"
           ELSE outcome = raise_validation_error("NotADecimal")

(***************************************************************************)
(* Properties of PasswordValidator, under SpecPassword.                    *)
(***************************************************************************)
PasswordCheckOrder ==
    <<"TooShort", "MissingDigit", "MissingLower", "MissingUpper", "MissingSpecial">>

Contains(p, S) == \E i \in DOMAIN p : p[i] \in S

\* the checks p violates
PasswordViolations(p) ==
    {c \in Range(PasswordCheckOrder) :
        \/ c = "TooShort" /\ ~(Len(p) >= 8)
        \/ c = "MissingDigit" /\ ~Contains(p, Digits)
        \/ c = "MissingLower" /\ ~Contains(p, LowerLetters)
        \/ c = "MissingUpper" /\ ~Contains(p, UpperLetters)
        \/ c = "MissingSpecial" /\ ~Contains(p, SpecialCharacters)}

\* C6: PasswordValidator(p).validate() reports the first check, in the order
\* length, digit, lowercase, uppercase, special character, that p violates,
\* and returns p itself when p violates none.
PasswordReportsFirstViolation ==
    (validator = "PasswordValidator" /\ calls = 1 /\ value.t = "str")
    => LET bad == {i \in DOMAIN PasswordCheckOrder :
                      PasswordCheckOrder[i] \in PasswordViolations(value.v)}
       IN  IF bad = {} THEN outcome = Valid(value)
           ELSE /\ outcome.kind = "Invalid"
                /\ \E i \in bad : /\ \A j \in bad : i <= j
                                  /\ outcome.code = PasswordCheckOrder[i]

\* "abc12345" lacks an uppercase letter and a special character: the
\* uppercase check is the one reported
PasswordMissingUpperFirst ==
    /\ validator = "PasswordValidator" /\ calls = 1
    /\ value = PyStr(<<"a", "b", "c", "1", "2", "3", "4", "5">>)
    /\ PasswordViolations(value.v) = {"MissingUpper", "MissingSpecial"}
    /\ outcome.code = "MissingUpper"

(***************************************************************************)
(* Properties of DateValidator and CrossFieldDateValidator, under SpecDate.*)
(***************************************************************************)
\* the positions of the supported formats that parse x
ParsingFormats(x) ==
    {i \in DOMAIN supported_formats : strptime(x, supported_formats[i]).ok}

First(S) == CHOOSE i \in S : \A j \in S : i <= j

DayFirstFormat == <<"%d", "/", "%m", "/", "%Y">>

MonthFirstFormat == <<"%m", "/", "%d", "/", "%Y">>

\* the digits between the first and the second slash of s, as a number
SecondSlashField(s) ==
    LET slashes == {i \in DOMAIN s : s[i] = "/"}
        a == First(slashes)
        b == First(slashes \ {a})
    IN  NatVal(Slice(s, a + 1, b - 1))

\* C4: determine_format returns the first pattern of supported_formats, in
\* list order, that parses the string, and UnrecognizedFormat only when none
\* parses it; a string that parses both as DD/MM/YYYY and as MM/DD/YYYY gets
\* the day-first pattern, and one that parses as a slash date with a second
\* field above 12 gets the month-first pattern.
DetermineFormatReturnsFirstParsing ==
    (validator = "DateValidator.determine_format" /\ calls = 1 /\ value.t = "str")
    => LET parsing == ParsingFormats(value)
       IN  /\ IF parsing = {} THEN outcome = Invalid("UnrecognizedFormat", 400)
              ELSE outcome = Valid(PyStr(supported_formats[First(parsing)]))
           /\ (strptime(value, DayFirstFormat).ok /\ strptime(value, MonthFirstFormat).ok)
              => outcome.ret = PyStr(DayFirstFormat)
           /\ (strptime(value, MonthFirstFormat).ok /\ SecondSlashField(value.v) > 12)
              => outcome.ret = PyStr(MonthFirstFormat)

\* "01/02/2024" parses day-first and month-first, and comes back day-first
AmbiguousSlashDateIsDayFirst ==
    /\ validator = "DateValidator.determine_format" /\ calls = 1
    /\ value = PyStr(<<"0", "1", "/", "0", "2", "/", "2", "0", "2", "4">>)
    /\ strptime(value, MonthFirstFormat).ok
    /\ outcome.ret = PyStr(DayFirstFormat)

\* s has the shape of a supported pattern, and the day it names is beyond
\* the last day of the month it names
NamesMissingDay(s) ==
    \E i \in DOMAIN supported_formats :
        /\ MatchesShape(s, supported_formats[i])
        /\ LET dt == FieldsToDatetime(MatchFrom(supported_formats[i], 1, s, 1, NoFields).fields)
           IN  /\ dt.year \in 1..9999 /\ dt.month \in 1..12
               /\ dt.day > DaysInMonth(dt.year, dt.month)

\* C3: DateValidator.validate() on a string of a supported shape that names
\* a day the calendar does not have answers InvalidCalendarDate, and on an
\* existing day of a year that is not in the future it succeeds.
MissingDayIsInvalidCalendarDate ==
    (validator = "DateValidator" /\ calls = 1 /\ value.t = "str")
    => /\ (NamesMissingDay(value.v) /\ ParsingFormats(value) = {})
          => outcome.code = "InvalidCalendarDate"
       /\ (value = PyStr(<<"2", "0", "2", "4", "-", "0", "2", "-", "2", "9">>) /\ today[1] >= 2024)
          => outcome.kind = "Valid"

\* the year of the date x parses to
ParsedYear(x) == strptime(x, supported_formats[First(ParsingFormats(x))]).dt.year

\* C5: for a date string that parses, DateValidator.validate() answers
\* FutureYear exactly when the parsed year is greater than the current year,
\* and succeeds for every year up to the current one, also on a day of the
\* current year that is later than today.
FutureYearIffYearAfterCurrent ==
    (/\ validator = "DateValidator" /\ calls = 1 /\ value.t = "str"
     /\ ParsingFormats(value) # {})
    => /\ outcome.code = "FutureYear" <=> ParsedYear(value) > today[1]
       /\ ParsedYear(value) <= today[1] => outcome.kind = "Valid"

\* on 2024-06-15 the date "2024-12-31" lies ahead and is accepted
LaterDayOfCurrentYearIsValid ==
    /\ validator = "DateValidator" /\ calls = 1
    /\ today = <<2024, 6, 15>>
    /\ value = PyStr(<<"2", "0", "2", "4", "-", "1", "2", "-", "3", "1">>)
    /\ outcome.kind = "Valid"

\* x is a string that DateValidator accepts on the day now
IsValidDate(x, now) == x.t = "str" /\ DateValidator_validate(x, now).kind = "Valid"

\* C2: CrossFieldDateValidator(start, end).validate() answers RangeInverted
\* exactly when both are valid dates and start >= end, and succeeds for two
\* valid dates with start < end.
CrossFieldRejectsInvertedRange ==
    (/\ validator = "CrossFieldDateValidator" /\ calls = 1
     /\ IsValidDate(params.start_date, today) /\ IsValidDate(params.end_date, today))
    => LET start == strptime(params.start_date, supported_formats[1]).dt
           end == strptime(params.end_date, supported_formats[1]).dt
       IN  IF DatetimeLess(start, end) THEN outcome.kind = "Valid"
           ELSE outcome = Invalid("RangeInverted", 400)

(***************************************************************************)
(* Properties of the file validators, under SpecFile.                      *)
(***************************************************************************)
\* C1: after FileValidator.validate(file) finishes, with any outcome, the
\* read position of the file is the one it had before the call, the start.
FilePositionRestored ==
    (validator \in {"FileValidator", "DocumentValidator", "ImageValidator"} /\ calls >= 1)
    => file.pos = 0

(***************************************************************************)
(* Properties of the whole set of validators, under SpecKinds.             *)
(***************************************************************************)
NumericValidators ==
    {"NumericValidator", "RangeValidator", "AgeValidator", "DecimalValidator"}

\* x is of the wrong kind for the validator v: no number for a numeric
\* validator, no boolean for BooleanValidator, no string for the others
WrongKind(v, x) ==
    IF v \in NumericValidators THEN x.t \in {"bool", "NoneType"}
    ELSE IF v = "BooleanValidator" THEN x.t # "bool"
    ELSE x.t # "str"

EmptyOrWrongKind(v, x) == x = PyStr(<<>>) \/ WrongKind(v, x)

\* C10: no validator of the set, with any parameters, returns a valid
\* outcome for the empty string or for an input of the wrong kind.
NeverValidOnEmptyOrWrongKind ==
    (calls = 1 /\ outcome.kind = "Valid")
    => IF validator = "CrossFieldDateValidator"
       THEN /\ ~EmptyOrWrongKind(validator, params.start_date)
            /\ ~EmptyOrWrongKind(validator, params.end_date)
       ELSE ~EmptyOrWrongKind(validator, value)

(***************************************************************************)
(* Properties of MinMaxLengthValidator, under SpecLength.                  *)
(***************************************************************************)
\* C11: MinMaxLengthValidator.validate(value) answers NotAString for every
\* value that is no string (an integer, a boolean, None), whatever the bounds.
NonStringIsNotAString ==
    (validator = "MinMaxLengthValidator" /\ calls = 1 /\ value.t # "str")
    => outcome = raise_validation_error("NotAString")

\* the bound b constrains: it is set and positive
PositiveBound(b) == b # PyNone /\ b.v > 0

\* C12: for a string s MinMaxLengthValidator(min_length, max_length)
\* answers TooShort when min_length is positive and s has fewer characters,
\* else TooLong when max_length is positive and s has more characters, and
\* is valid otherwise; an unset or zero bound constrains nothing.
LengthOfSuppliedStringDecides ==
    (validator = "MinMaxLengthValidator" /\ calls = 1 /\ value.t = "str")
    => outcome =
          IF PositiveBound(params.min_length) /\ Len(value.v) < params.min_length.v
          THEN raise_validation_error("TooShort")
          ELSE IF PositiveBound(params.max_length) /\ Len(value.v) > params.max_length.v
          THEN raise_validation_error("TooLong")
          ELSE Valid(PyBool(TRUE))

(***************************************************************************)
(* Properties of AlphanumericValidator and AlphabetSetValidator, under     *)
(* SpecAlnum.                                                              *)
(***************************************************************************)
\* what a validator that allows the characters of S answers for s
OnlyCharactersOf(S, s, code) ==
    IF s = <<>> THEN raise_validation_error("EmptyValue")
    ELSE IF \A i \in DOMAIN s : s[i] \in S THEN Valid(PyBool(TRUE))
    ELSE raise_validation_error(code)

\* C13: AlphanumericValidator.validate(s) answers EmptyValue for the empty
\* string, is valid exactly when every character of s is an ASCII letter or
\* digit and answers NotAlphanumeric for any other s, a line break in s
\* included; AlphabetSetValidator does the same with ASCII letters only.
OnlyAllowedCharactersAccepted ==
    /\ (validator = "AlphanumericValidator" /\ calls = 1 /\ value.t = "str")
       => outcome = OnlyCharactersOf(Letters \cup Digits, value.v, "NotAlphanumeric")
    /\ (validator = "AlphabetSetValidator" /\ calls = 1 /\ value.t = "str")
       => outcome = OnlyCharactersOf(Letters, value.v, "NotAlphabetic")

(***************************************************************************)
(* Properties of PhoneNumberValidator, under SpecPhone.                    *)
(***************************************************************************)
DigitCount(s) == Cardinality({i \in DOMAIN s : s[i] \in Digits})

\* C14: PhoneNumberValidator(min_length, max_length).validate(p) answers
\* EmptyValue for the empty p, else BadFormat when p does not match the
\* phone pattern, else TooShort or TooLong by the number of digits of p
\* alone; with positive bounds every accepted p has its number of digits
\* within [min_length, max_length].
PhoneChecksInOrder ==
    (validator = "PhoneNumberValidator" /\ calls = 1 /\ value.t = "str")
    => LET p == value.v
           n == DigitCount(p)
       IN  /\ outcome =
                IF p = <<>> THEN raise_validation_error("EmptyValue")
                ELSE IF ~re_fullmatch(PhoneRegex, p) THEN raise_validation_error("BadFormat")
                ELSE IF PositiveBound(params.min_length) /\ n < params.min_length.v
                THEN raise_validation_error("TooShort")
                ELSE IF PositiveBound(params.max_length) /\ n > params.max_length.v
                THEN raise_validation_error("TooLong")
                ELSE Valid(PyStr(ValidPhoneNumberText))
           /\ (/\ outcome.kind = "Valid"
               /\ PositiveBound(params.min_length) /\ PositiveBound(params.max_length))
              => n \in params.min_length.v..params.max_length.v

\* "+1 (23) 111-7890" has 16 characters and 10 digits: the default bounds
\* [8, 14] accept it
PhoneCountsDigitsOnly ==
    /\ validator = "PhoneNumberValidator" /\ calls = 1
    /\ params = [min_length |-> PyInt(8), max_length |-> PyInt(14)]
    /\ value = PyStr(<<"+", "1", " ", "(", "2", "3", ")", " ", "1", "1", "1",
                       "-", "7", "8", "9", "0">>)
    /\ Len(value.v) > 14 /\ DigitCount(value.v) = 10
    /\ outcome.kind = "Valid"

(***************************************************************************)
(* Properties of EmailValidator, under SpecEmail.                          *)
(***************************************************************************)
\* the part of e before its first '@', all of e when it has none
LocalPart(e) ==
    IF IndexOf(e, "@") = 0 THEN e ELSE SubSeq(e, 1, IndexOf(e, "@") - 1)

HasUppercase(e) == \E i \in DOMAIN e : e[i] \in UpperLetters

ResolverErrors == ResolverAnswers \ {"found", "NoAnswer", "NXDOMAIN"}

\* the first rule of the fixed order that e violates before the MX lookup,
\* "none" when it passes them all
EmailFirstLocalViolation(min_length, max_length, e) ==
    IF PositiveBound(min_length) /\ Len(e) < min_length.v THEN "TooShort"
    ELSE IF PositiveBound(max_length) /\ Len(e) > max_length.v THEN "TooLong"
    ELSE IF e = <<>> THEN "EmptyValue"
    ELSE IF Len(LocalPart(e)) < 3 THEN "UsernameTooShort"
    ELSE IF HasUppercase(e) THEN "UppercaseNotAllowed"
    ELSE IF ~re_match_dollar(EmailRegex, e) THEN "BadFormat"
    ELSE "none"

\* C15: EmailValidator.validate(e) reports the first violated rule in the
\* order length bounds, EmptyValue, UsernameTooShort, UppercaseNotAllowed,
\* BadFormat, DomainUnresolvable, and accepts e only when none is violated:
\* every accepted e is all-lowercase with a local part of 3 characters or
\* more.  (How a failing MX lookup ends is the matter of C17.)
EmailReportsFirstViolation ==
    (validator = "EmailValidator" /\ calls = 1 /\ value.t = "str")
    => LET first == EmailFirstLocalViolation(params.min_length, params.max_length, value.v)
       IN  /\ first # "none" => outcome = raise_validation_error(first)
           /\ first = "none"
              => \/ outcome \in {Valid(PyBool(TRUE)), raise_validation_error("DomainUnresolvable")}
                 \/ outcome.kind = "Error" /\ outcome.code \in ResolverErrors
           /\ outcome.kind = "Valid"
              => ~HasUppercase(value.v) /\ Len(LocalPart(value.v)) >= 3

\* C16: an input string that passes the length bounds and holds no '@' ends
\* EmailValidator.validate in a validation failure, never in an error of
\* another kind.
EmailWithoutAtIsValidationFailure ==
    (/\ validator = "EmailValidator" /\ calls = 1 /\ value.t = "str"
     /\ EmailFirstLocalViolation(params.min_length, params.max_length, value.v)
            \notin {"TooShort", "TooLong", "EmptyValue"}
     /\ IndexOf(value.v, "@") = 0)
    => outcome.kind = "Invalid" /\ outcome.status = 422

\* C17: for an email that passes every local check, whatever the MX lookup
\* answers, validate ends valid or in a validation failure
\* (DomainUnresolvable); a resolver error does not leave validate as an
\* unhandled exception.
ResolverFailureIsValidationFailure ==
    (/\ validator = "EmailValidator" /\ calls = 1 /\ value.t = "str"
     /\ EmailFirstLocalViolation(params.min_length, params.max_length, value.v) = "none")
    => /\ outcome.kind \in {"Valid", "Invalid"}
       /\ outcome.kind = "Invalid" => outcome = raise_validation_error("DomainUnresolvable")

(***************************************************************************)
(* Properties of ZipcodeValidator and PincodeValidator, under SpecPostal.  *)
(***************************************************************************)
AllDigits(s) == \A i \in DOMAIN s : s[i] \in Digits

\* 5 digits, or 5 digits, '-', 4 digits
IsZipcode(s) ==
    \/ Len(s) = 5 /\ AllDigits(s)
    \/ /\ Len(s) = 10 /\ s[6] = "-"
       /\ AllDigits(SubSeq(s, 1, 5)) /\ AllDigits(SubSeq(s, 7, 10))

\* what a validator with the bounds [lo, hi] and the accepted set given by
\* wellFormed answers on the string s, lengths being those of s
PostalExpected(lo, hi, wellFormed, s, text) ==
    IF s = <<>> THEN raise_validation_error("EmptyValue")
    ELSE IF Len(s) < lo THEN raise_validation_error("TooShort")
    ELSE IF Len(s) > hi THEN raise_validation_error("TooLong")
    ELSE IF ~wellFormed THEN raise_validation_error("BadFormat")
    ELSE Valid(PyStr(text))

\* C18: ZipcodeValidator() with the default bounds [5, 10] accepts a string
\* exactly when it is 5 digits or 5 digits, '-', 4 digits; the empty string
\* fails with EmptyValue, a string of fewer than 5 characters with TooShort,
\* one of more than 10 with TooLong, and any other string with BadFormat.
ZipcodeAcceptsZipOrZipPlusFour ==
    (/\ validator = "ZipcodeValidator" /\ calls = 1 /\ value.t = "str"
     /\ params = [min_length |-> PyInt(5), max_length |-> PyInt(10)])
    => outcome = PostalExpected(5, 10, IsZipcode(value.v), value.v, ValidZipCodeText)

\* C19: PincodeValidator() with the default bounds [6, 6] accepts a string
\* exactly when it is 6 digits; a non-empty string of 6 characters that is
\* not all digits fails with BadFormat, and every other string fails with
\* EmptyValue, TooShort or TooLong.
PincodeAcceptsSixDigits ==
    (/\ validator = "PincodeValidator" /\ calls = 1 /\ value.t = "str"
     /\ params = [min_length |-> PyInt(6), max_length |-> PyInt(6)])
    => outcome = PostalExpected(6, 6, AllDigits(value.v), value.v, ValidPincodeText)

(***************************************************************************)
(* Properties of BooleanValidator, under SpecBoolean.                      *)
(***************************************************************************)
\* C20: BooleanValidator(value).validate() succeeds exactly when value is
\* True or False, and fails with NotBoolean for every other value, the
\* string "true", the integers 1 and 0, the empty string and None included.
BooleanValidIffBoolean ==
    (validator = "BooleanValidator" /\ calls = 1)
    => /\ outcome.kind = "Valid" <=> value \in {PyBool(TRUE), PyBool(FALSE)}
       /\ outcome.kind # "Valid" => outcome.kind = "Invalid" /\ outcome.code = "NotBoolean"
       /\ value \in {PyStr(<<"t", "r", "u", "e">>), PyInt(1), PyInt(0), PyStr(<<>>), PyNone}
          => outcome.code = "NotBoolean"

\* the truthy string "true" is rejected
TruthyStringIsNotBoolean ==
    /\ validator = "BooleanValidator" /\ calls = 1
    /\ value = PyStr(<<"t", "r", "u", "e">>)
    /\ outcome.kind = "Invalid" /\ outcome.code = "NotBoolean"

(***************************************************************************)
(* Further properties of the file validators, under SpecFile.              *)
(***************************************************************************)
DocumentTypes ==
    {<<".", "p", "d", "f">>, <<".", "d", "o", "c", "x">>, <<".", "x", "l", "s", "x">>}

\* the outcome for a file of the given size under the cap of the validator
WithinCap(size, max_file_size_mb) ==
    IF size > max_file_size_mb * BytesPerMB
    THEN raise_validation_error("FileTooLarge") ELSE Valid(PyNone)

\* C21: DocumentValidator accepts exactly the extensions .pdf, .docx and
\* .xlsx, compared without regard to case: a file with a well-formed name
\* of one of these extensions and a size within the cap is valid, and a
\* file with any other extension fails with UnsupportedType.
DocumentAcceptsPdfDocxXlsx ==
    (/\ validator = "DocumentValidator" /\ calls = 1
     /\ validate_file_name(file.filename).kind = "Valid")
    => outcome = IF LowerStr(splitext_ext(file.filename)) \in DocumentTypes
                 THEN WithinCap(file.size, params.max_file_size_mb)
                 ELSE raise_validation_error("UnsupportedType")

FileValidators == {"FileValidator", "DocumentValidator", "ImageValidator"}

\* the extensions the validator of the state was constructed with
AllowedExtensions ==
    IF validator = "DocumentValidator" THEN DocumentExtensions
    ELSE IF validator = "ImageValidator" THEN ImageExtensions
    ELSE params.allowed_extensions

\* the outcome of the checks in the order name, type, size for a file name
\* and the number of bytes of the file
FileChecksExpected(allowed, max_file_size_mb, f) ==
    IF validate_file_name(f.filename).kind # "Valid"
    THEN raise_validation_error("BadFileName")
    ELSE IF LowerStr(splitext_ext(f.filename)) \notin {LowerStr(allowed[i]) : i \in DOMAIN allowed}
    THEN raise_validation_error("UnsupportedType")
    ELSE WithinCap(f.size, max_file_size_mb)

\* C22: every call of FileValidator.validate(file) answers BadFileName for
\* an ill-formed name, else UnsupportedType for an extension outside the
\* allowed set, else FileTooLarge exactly when the file has more bytes than
\* max_file_size_mb * 1024 * 1024; the stream of the file is read only when
\* the name and the type checks have both passed.
FileChecksInOrderStep ==
    (validator \in FileValidators /\ calls' = calls + 1)
    => /\ outcome' = FileChecksExpected(AllowedExtensions, params.max_file_size_mb, file)
       /\ outcome'.code \in {"BadFileName", "UnsupportedType"} => file' = file

FileChecksInOrder == [][FileChecksInOrderStep]_vars

\* the same for a file handed over at its start
FileChecksInOrderFromStart == [][file.pos = 0 => FileChecksInOrderStep]_vars

(***************************************************************************)
(* A further property of DecimalValidator, under SpecDecimal.              *)
(***************************************************************************)
\* C23: DecimalValidator(0) rejects with NotADecimal every text that has a
\* fractional part (a '.' in it), such as "1.5": no digit may follow the
\* point when max_decimal_places is set to zero.
ZeroDecimalPlacesRejectsFraction ==
    (/\ validator = "DecimalValidator" /\ calls = 1 /\ value.t = "str"
     /\ params.max_decimal_places = PyInt(0)
     /\ \E i \in DOMAIN value.v : value.v[i] = ".")
    => outcome = raise_validation_error("NotADecimal")

\* C24: validating the same file object twice in a row with the same
\* validator gives the same outcome both times: accepted twice, or rejected
\* twice with the same reason.
RepeatedValidationAgrees ==
    (validator \in FileValidators /\ calls = 2) => outcome = previous

(***************************************************************************)
(* The MX lookup of EmailValidator, under SpecEmail.                       *)
(***************************************************************************)
\* the part of e after its first '@'
DomainPart(e) == SubSeq(e, IndexOf(e, "@") + 1, Len(e))

\* C25: a call of EmailValidator.validate issues at most one MX lookup, and
\* only after the length, empty, username, uppercase and format checks have
\* all passed: an input one of them rejects (or that is no string) causes
\* no lookup, and the domain looked up is the part of the input after its
\* first '@'.
LookupOnlyAfterLocalChecks ==
    (validator = "EmailValidator" /\ calls = 1)
    => /\ Len(lookups) <= 1
       /\ lookups =
            IF /\ value.t = "str"
               /\ EmailFirstLocalViolation(params.min_length, params.max_length, value.v) = "none"
            THEN <<DomainPart(html_escape(value.v))>>
            ELSE <<>>

\* "aaa@b.c" passes the local checks and its domain "b.c" is looked up once,
\* whatever the resolver then answers
LookupIssuedForWellFormedEmail ==
    /\ validator = "EmailValidator" /\ calls = 1
    /\ value = PyStr(<<"a", "a", "a", "@", "b", ".", "c">>)
    /\ lookups = << <<"b", ".", "c">> >>
    /\ outcome = raise_validation_error("DomainUnresolvable")

(***************************************************************************)
(* The /validate-age endpoint, under SpecAge.                              *)
(***************************************************************************)
\* C26: validate_age_field answers "Age is valid." for every numeric age of
\* 18 or more and ends in a validation failure (the HTTPException of the
\* validator) for every age below 18; no request ends in an unhandled error
\* raised while the validator is constructed or called.
AgeEndpointAnswers ==
    (validator = "validate_age_field" /\ calls = 1 /\ value.t = "int")
    => IF value.v >= DefaultMinAge
       THEN outcome = Valid(PyStr(AgeIsValidText))
       ELSE outcome.kind = "Invalid"

=============================================================================
